---- MODULE Spec2Model ----
(***************************************************************************)
(* Token verification core of pythonRestAPI/main.py: get_public_keys,      *)
(* decode_token and get_current_user, with the discovery endpoint and the  *)
(* python-jose / requests calls they make.                                 *)
(***************************************************************************)
EXTENDS Integers, Sequences, FiniteSets, TLC

(* ------------------------------ bounds --------------------------------- *)
MaxTokenLen == 22
MaxKeys == 2
MaxTime == 1

(* --------------------------- configuration ----------------------------- *)
CLIENT_ID == "6bf0a972-724c-4751-a75c-1e1c6e05af91"
\* f"api://{CLIENT_ID}": a string is modelled by its two parts
ExpectedAudience == <<"api://", CLIENT_ID>>
\* the same client id without the api:// prefix
BareAudience == <<"", CLIENT_ID>>
HTTP_401_UNAUTHORIZED == 401
HTTP_500 == 500
Algorithms == {"RS256"}
\* token[:10] and token[:20]
ReceivedLen == 10
PartialLen == 20

(* ------------------------------ inputs --------------------------------- *)
KIDs == {"abc", "xyz"}
Mats == {"m1", "m2"}
Algs == {"RS256", "HS256", "none"}
Absent == "absent"

\* A compact JWS whose header declares an algorithm has at least 19 header
\* characters (base64url of {"alg":"none"}) and two '.' separators.
MinJwtLen == 21

\* The token is an opaque string; character i is represented by i.
TokenString(n) == [i \in 1..n |-> i]

EmptyDict == [x \in {} |-> 0]

Headers == {[alg |-> a] : a \in Algs} \cup {[alg |-> a, kid |-> k] : a \in Algs, k \in KIDs}

AudValues == {{ExpectedAudience}, {BareAudience}, {ExpectedAudience, BareAudience}}

Payloads ==
    {EmptyDict} \cup {[aud |-> a] : a \in AudValues}
    \cup {[exp |-> e] : e \in 0..MaxTime}
    \cup {[aud |-> a, exp |-> e] : a \in AudValues, e \in 0..MaxTime}

MalformedTokens ==
    {[text |-> TokenString(n), wellformed |-> FALSE, header |-> EmptyDict,
      payload |-> EmptyDict, signedWith |-> "garbage"] : n \in 1..MaxTokenLen}

WellFormedTokens ==
    {[text |-> TokenString(n), wellformed |-> TRUE, header |-> h,
      payload |-> p, signedWith |-> s] :
        n \in MinJwtLen..MaxTokenLen, h \in Headers, p \in Payloads,
        s \in Mats \cup {"garbage"}}

Tokens == MalformedTokens \cup WellFormedTokens

NoToken ==
    [text |-> <<>>, wellformed |-> FALSE, header |-> EmptyDict,
     payload |-> EmptyDict, signedWith |-> "garbage"]

\* entries of the "keys" array of a discovery response
KeyEntries == {[kid |-> k, mat |-> m] : k \in KIDs \cup {Absent}, m \in Mats}

SeqUpTo(S, n) == UNION {[1..k -> S] : k \in 0..n}

Bodies ==
    {[json |-> FALSE, hasKeys |-> FALSE, keys |-> <<>>],
     [json |-> TRUE, hasKeys |-> FALSE, keys |-> <<>>]}
    \cup {[json |-> TRUE, hasKeys |-> TRUE, keys |-> ks] : ks \in SeqUpTo(KeyEntries, MaxKeys)}

Responses ==
    {[kind |-> "transport_error", status |-> 0, body |-> [json |-> FALSE, hasKeys |-> FALSE, keys |-> <<>>]],
     [kind |-> "http", status |-> 503, body |-> [json |-> FALSE, hasKeys |-> FALSE, keys |-> <<>>]]}
    \cup {[kind |-> "http", status |-> 200, body |-> b] : b \in Bodies}

NoResponse ==
    [kind |-> "none", status |-> 0, body |-> [json |-> FALSE, hasKeys |-> FALSE, keys |-> <<>>]]

(* ----------------------------- outcomes -------------------------------- *)
Return(v) == [kind |-> "return", exc |-> "none", status |-> 0, detail |-> "", value |-> v]
Raise(e, s, d) == [kind |-> "raise", exc |-> e, status |-> s, detail |-> d, value |-> EmptyDict]
Pending == [kind |-> "none", exc |-> "none", status |-> 0, detail |-> "", value |-> EmptyDict]

\* python s[:n]
Prefix(s, n) == SubSeq(s, 1, IF Len(s) < n THEN Len(s) ELSE n)

LogEntry(level, msg, part) == [level |-> level, msg |-> msg, tokenPart |-> part]

VARIABLES pc, token, now, endpoint, response, fetches, log,
          gpkResult, dtResult, result, headerDecoded, sigAttempted, handlerRan

vars == <<pc, token, now, endpoint, response, fetches, log,
          gpkResult, dtResult, result, headerDecoded, sigAttempted, handlerRan>>

Init ==
    /\ pc = "idle"
    /\ token = NoToken
    /\ now = 0
    /\ endpoint = "responding"
    /\ response = NoResponse
    /\ fetches = 0
    /\ log = <<>>
    /\ gpkResult = Pending
    /\ dtResult = Pending
    /\ result = Pending
    /\ headerDecoded = FALSE
    /\ sigAttempted = FALSE
    /\ handlerRan = FALSE

\* get_current_user is entered, logs the token prefix, calls decode_token,
\* which calls get_public_keys, which issues requests.get(JWKS_URL).
ReceiveRequest ==
    /\ pc = "idle"
    /\ \E t \in Tokens, n \in 0..MaxTime, ep \in {"responding", "hung"} :
        /\ token' = t
        /\ now' = n
        /\ endpoint' = ep
        /\ log' = <<LogEntry("debug", "Received token", Prefix(t.text, ReceivedLen))>>
    /\ pc' = "fetching"
    /\ fetches' = 1
    /\ response' = NoResponse
    /\ gpkResult' = Pending
    /\ dtResult' = Pending
    /\ result' = Pending
    /\ headerDecoded' = FALSE
    /\ sigAttempted' = FALSE
    /\ handlerRan' = FALSE

(* --------------------------- get_public_keys --------------------------- *)
\* {key["kid"]: key for key in jwks["keys"]}: a later entry overwrites an
\* earlier one with the same kid.
RECURSIVE BuildDict(_)
BuildDict(ks) ==
    IF ks = <<>> THEN EmptyDict
    ELSE LET last == ks[Len(ks)]
             init == BuildDict(SubSeq(ks, 1, Len(ks) - 1))
         IN  [k \in (DOMAIN init) \cup {last.kid} |->
                 IF k = last.kid THEN last ELSE init[k]]

\* The exceptions requests raises for a transport failure, a non-2xx status
\* (raise_for_status) and a body that is not JSON (requests' JSONDecodeError)
\* are all RequestException.
RaisesRequestException(resp) ==
    \/ resp.kind = "transport_error"
    \/ resp.status < 200
    \/ resp.status >= 300
    \/ ~resp.body.json

get_public_keys(resp) ==
    IF RaisesRequestException(resp)
    THEN [out |-> Raise("HTTPException", HTTP_500, "Failed to fetch JWKS"),
          logs |-> <<LogEntry("error", "Failed to fetch JWKS", <<>>)>>]
    ELSE IF ~resp.body.hasKeys
    THEN [out |-> Raise("KeyError", 0, "keys"), logs |-> <<>>]
    ELSE IF \E i \in DOMAIN resp.body.keys : resp.body.keys[i].kid = Absent
    THEN [out |-> Raise("KeyError", 0, "kid"), logs |-> <<>>]
    ELSE [out |-> Return(BuildDict(resp.body.keys)), logs |-> <<>>]

(* ------------------------------ jwt.decode ----------------------------- *)
\* variant: no algorithms restriction is passed to jwt.decode
AlgAllowedAny(alg) == alg \in Algs

\* algorithms=["RS256"]
AlgAllowed(alg) == alg \in Algorithms

SignatureVerifies(tok, key) == tok.signedWith = key.mat

\* python-jose: an absent exp is not validated; expired when exp < now
ExpValid(claims, t) == "exp" \notin DOMAIN claims \/ ~(claims.exp < t)

\* python-jose: an absent aud is not validated; a string aud is a one-element
\* list; the expected audience has to be among the listed ones
AudValid(claims) == "aud" \notin DOMAIN claims \/ ExpectedAudience \in claims.aud

jwt_decode(tok, key, t) ==
    IF ~AlgAllowed(tok.header.alg)
    THEN Raise("JWTError", 0, "The specified alg value is not allowed")
    ELSE IF ~SignatureVerifies(tok, key)
    THEN Raise("JWTError", 0, "Signature verification failed.")
    ELSE IF ~ExpValid(tok.payload, t)
    THEN Raise("JWTError", 0, "Signature has expired.")
    ELSE IF ~AudValid(tok.payload)
    THEN Raise("JWTError", 0, "Invalid audience")
    ELSE Return(tok.payload)

(* ----------------------------- decode_token ---------------------------- *)
\* variant: the error path logs the token without slicing it
PartialTokenWhole(text) == text

PartialToken(text) == Prefix(text, PartialLen)

\* except JWTError as e: three error lines, then 401
OnJWTError(tok, msg) ==
    [out |-> Raise("HTTPException", HTTP_401_UNAUTHORIZED, "Token decoding failed"),
     logs |-> <<LogEntry("error", msg, <<>>),
                LogEntry("error", "Expected audience", <<>>),
                LogEntry("error", "Token (partial)", PartialToken(tok.text))>>]

\* variant: the "if not key" test is missing, so jwt.decode is called with
\* None for an unknown kid and fails to verify
LookupAndDecodeUnchecked(tok, keys, t) ==
    IF "kid" \notin DOMAIN tok.header
    THEN [out |-> Raise("KeyError", 0, "kid"), logs |-> <<>>, sig |-> FALSE]
    ELSE LET d == IF tok.header.kid \in DOMAIN keys
                  THEN jwt_decode(tok, keys[tok.header.kid], t)
                  ELSE Raise("JWTError", 0, "Signature verification failed.")
         IN  IF d.kind = "raise"
             THEN [out |-> OnJWTError(tok, d.detail).out,
                   logs |-> OnJWTError(tok, d.detail).logs, sig |-> TRUE]
             ELSE [out |-> d,
                   logs |-> <<LogEntry("debug", "Decoded payload", <<>>)>>, sig |-> TRUE]

\* keys.get(unverified_header["kid"]) onwards
LookupAndDecode(tok, keys, t) ==
    IF "kid" \notin DOMAIN tok.header
    THEN [out |-> Raise("KeyError", 0, "kid"), logs |-> <<>>, sig |-> FALSE]
    ELSE IF tok.header.kid \notin DOMAIN keys
    THEN [out |-> Raise("HTTPException", HTTP_401_UNAUTHORIZED, "Invalid token header: kid not found"),
          logs |-> <<>>, sig |-> FALSE]
    ELSE LET d == jwt_decode(tok, keys[tok.header.kid], t)
         IN  IF d.kind = "raise"
             THEN [out |-> OnJWTError(tok, d.detail).out,
                   logs |-> OnJWTError(tok, d.detail).logs, sig |-> TRUE]
             ELSE [out |-> d,
                   logs |-> <<LogEntry("debug", "Decoded payload", <<>>)>>, sig |-> TRUE]

decode_token(tok, resp, t) ==
    LET gpk == get_public_keys(resp)
    IN  IF gpk.out.kind = "raise"
        THEN [out |-> gpk.out, logs |-> gpk.logs, hdr |-> FALSE, sig |-> FALSE]
        ELSE IF ~tok.wellformed
        THEN [out |-> OnJWTError(tok, "Error decoding token headers.").out,
              logs |-> OnJWTError(tok, "Error decoding token headers.").logs,
              hdr |-> TRUE, sig |-> FALSE]
        ELSE LET r == LookupAndDecode(tok, gpk.out.value, t)
             IN  [out |-> r.out,
                  logs |-> <<LogEntry("debug", "Token header", <<>>)>> \o r.logs,
                  hdr |-> TRUE, sig |-> r.sig]

(* --------------------------- get_current_user -------------------------- *)
\* variant: the handler is "except JWTError", which lets other exceptions pass
get_current_user_narrow(dt) ==
    IF dt.kind = "return" \/ dt.exc # "JWTError"
    THEN [out |-> dt, logs |-> <<>>]
    ELSE [out |-> Raise("HTTPException", HTTP_401_UNAUTHORIZED, "Invalid credentials"),
          logs |-> <<LogEntry("error", "Token validation failed", <<>>)>>]

\* except Exception as e: every exception of decode_token, HTTPException
\* included, becomes 401 "Invalid credentials"
get_current_user(dt) ==
    IF dt.kind = "return"
    THEN [out |-> dt, logs |-> <<>>]
    ELSE [out |-> Raise("HTTPException", HTTP_401_UNAUTHORIZED, "Invalid credentials"),
          logs |-> <<LogEntry("error", "Token validation failed", <<>>)>>]

\* The discovery endpoint answers the pending GET; get_public_keys,
\* decode_token and get_current_user run to completion, and the route
\* handler body runs if the dependency returned.
Complete(resp) ==
    LET dt == decode_token(token, resp, now)
        gcu == get_current_user(dt.out)
    IN  /\ response' = resp
        /\ gpkResult' = get_public_keys(resp).out
        /\ dtResult' = dt.out
        /\ result' = gcu.out
        /\ log' = log \o dt.logs \o gcu.logs
        /\ headerDecoded' = dt.hdr
        /\ sigAttempted' = dt.sig
        /\ handlerRan' = (gcu.out.kind = "return")
        /\ pc' = "done"
        /\ UNCHANGED <<token, now, endpoint, fetches>>

FetchFails ==
    /\ pc = "fetching"
    /\ endpoint = "responding"
    /\ \E resp \in Responses : RaisesRequestException(resp) /\ Complete(resp)

FetchSucceeds ==
    /\ pc = "fetching"
    /\ endpoint = "responding"
    /\ \E resp \in Responses : ~RaisesRequestException(resp) /\ Complete(resp)

\* The request ends (response or error sent); nothing of it is kept: the
\* handlers hold no state between requests.
EndRequest ==
    /\ pc = "done"
    /\ pc' = "idle"
    /\ token' = NoToken
    /\ now' = 0
    /\ endpoint' = "responding"
    /\ response' = NoResponse
    /\ fetches' = 0
    /\ log' = <<>>
    /\ gpkResult' = Pending
    /\ dtResult' = Pending
    /\ result' = Pending
    /\ headerDecoded' = FALSE
    /\ sigAttempted' = FALSE
    /\ handlerRan' = FALSE

Next == ReceiveRequest \/ FetchFails \/ FetchSucceeds \/ EndRequest

Spec == Init /\ [][Next]_vars

\* requests.get carries no timeout: a pending GET ends only when the
\* endpoint answers.  Every step the program can take is taken.
FairSpec == Spec /\ WF_vars(Next)

(* ============================== properties ============================== *)
Done == pc = "done"
KeysFetched == gpkResult.kind = "return"
HasKid == "kid" \in DOMAIN token.header
Is401(o) == o.kind = "raise" /\ o.exc = "HTTPException" /\ o.status = HTTP_401_UNAUTHORIZED
Is500(o) == o.kind = "raise" /\ o.exc = "HTTPException" /\ o.status = HTTP_500
DiscoveryCallFailed ==
    \/ response.kind = "transport_error"
    \/ response.kind = "http" /\ response.status \notin 200..299

\* C1: claims are returned, and a route handler body runs, only if the fetched
\* key set has a key with the header's kid against which the signature
\* verifies, the aud claim equals api://CLIENT_ID and the token is not expired.
C1_ClaimsOnlyIfFullyValid ==
    (dtResult.kind = "return" \/ result.kind = "return" \/ handlerRan) =>
        /\ KeysFetched
        /\ HasKid
        /\ token.header.kid \in DOMAIN gpkResult.value
        /\ token.signedWith = gpkResult.value[token.header.kid].mat
        /\ \E i \in DOMAIN response.body.keys :
              response.body.keys[i] = gpkResult.value[token.header.kid]
        /\ "aud" \in DOMAIN token.payload
        /\ token.payload.aud = {ExpectedAudience}
        /\ "exp" \in DOMAIN token.payload
        /\ token.payload.exp >= now

\* C2: when the discovery call fails (transport error or non-2xx status) the
\* request is rejected with HTTP 500 and never with HTTP 401.
C2_OutageIsRejectedWith500 ==
    (Done /\ DiscoveryCallFailed) => (Is500(result) /\ ~Is401(result))

C4_MissingCriticalClaimRejected ==
    (Done /\ token.wellformed
       /\ ("aud" \notin DOMAIN token.payload
           \/ "exp" \notin DOMAIN token.payload
           \/ ~HasKid))
    => dtResult.kind # "return"

\* C5: every verification eventually completes, also when the discovery
\* endpoint never responds.
C5_VerificationCompletes == (pc = "fetching") ~> (pc = "done")

\* C6: for a token of malformed structure no discovery request is issued and
\* the result is the 401 malformed-token failure, whatever the endpoint does.
C6_MalformedBeforeFetch ==
    (pc # "idle" /\ ~token.wellformed) =>
        /\ fetches = 0
        /\ Done => (Is401(dtResult) /\ dtResult.detail = "Token decoding failed")

C8_KeysOr500 == Done => (gpkResult.kind = "return" \/ Is500(gpkResult))

\* C9 (as stated): no log entry holds the complete token string, whatever
\* the token's length.
C9_NeverFullToken ==
    pc # "idle" => \A i \in DOMAIN log : log[i].tokenPart # token.text

\* C9 (amended): every log entry holds at most the first 20 characters of the
\* token (10 on entry, 20 on the JWTError path), so a token longer than 20
\* characters is never logged in full.
C9_AtMostPrefixLogged ==
    pc # "idle" => \A i \in DOMAIN log :
        /\ Len(log[i].tokenPart) <= PartialLen
        /\ log[i].tokenPart = Prefix(token.text, Len(log[i].tokenPart))
        /\ log[i].msg = "Received token" => Len(log[i].tokenPart) <= ReceivedLen
        /\ Len(token.text) > PartialLen => log[i].tokenPart # token.text

\* a token longer than 20 characters went through the JWTError path
C9_Witness ==
    /\ Done /\ Len(token.text) > PartialLen
    /\ \E i \in DOMAIN log :
          log[i].msg = "Token (partial)" /\ Len(log[i].tokenPart) = PartialLen

\* C10: get_current_user ends by returning the claims or by raising an
\* HTTPException; no other exception escapes it.
C10_ClaimsOrHTTPException ==
    Done => \/ result.kind = "return" /\ result.value = token.payload
            \/ result.kind = "raise" /\ result.exc = "HTTPException"

\* decode_token ended with a KeyError and the request was rejected
C10_Witness ==
    /\ Done
    /\ dtResult.kind = "raise" /\ dtResult.exc = "KeyError"
    /\ result.kind = "raise" /\ result.exc = "HTTPException"
====
